---- MODULE Spec2Model ----
(***************************************************************************)
(* A model of run_query.py: the leaderboard pipeline main() with its two   *)
(* database fetches, the optional SSH tunnel context, the identity chunk   *)
(* loop, the blacklist reader and the filter / sort / truncate / save      *)
(* stage.                                                                  *)
(*                                                                         *)
(* Text is modelled as a sequence of one-character strings, so that        *)
(* str(), strip(), lower() and the lexicographic order of Python strings   *)
(* are computed and not assumed.  None (and SQL NULL) is the value NULL.   *)
(***************************************************************************)
EXTENDS Integers, Sequences, FiniteSets, TLC

\* ---------------------------------------------------------------- bounds
MaxRows == 3
MaxTopN == 3
MaxBlLines == 3
SmallPairs == 40

\* ------------------------------------------------------- program constant
MAX_PARAMS == 60000

\* ------------------------------------------------------------------ text
NULL == <<"None">>

Upper == <<"A","B","C","D","E","F","G","H","I","J","K","L","M",
           "N","O","P","Q","R","S","T","U","V","W","X","Y","Z">>
Lower == <<"a","b","c","d","e","f","g","h","i","j","k","l","m",
           "n","o","p","q","r","s","t","u","v","w","x","y","z">>
Digits == <<"0","1","2","3","4","5","6","7","8","9">>

\* The printable ASCII characters in code-point order, from 32 (space); the
\* grave accent (96) is written "GRAVE", which no text of the model holds.
Ascii == <<" ","!","\"","#","$","%","&","'","(",")","*","+",",","-",".","/">>
         \o Digits
         \o <<":",";","<","=",">","?","@">>
         \o Upper
         \o <<"[","\\","]","^","_","GRAVE">>
         \o Lower
         \o <<"{","|","}","~">>

\* ord(c): the code point of a character.
ord(c) == 31 + (CHOOSE n \in 1..Len(Ascii) : Ascii[n] = c)

lower_char(c) ==
    IF \E i \in 1..Len(Upper) : Upper[i] = c
    THEN Lower[CHOOSE i \in 1..Len(Upper) : Upper[i] = c]
    ELSE c

\* str.lower()
lower(s) == [i \in 1..Len(s) |-> lower_char(s[i])]

Whitespace == {" ", "\t", "\n", "\r"}

RECURSIVE lstrip(_, _)
lstrip(s, cs) ==
    IF s # <<>> /\ Head(s) \in cs THEN lstrip(Tail(s), cs) ELSE s

RECURSIVE rstrip(_, _)
rstrip(s, cs) ==
    IF s # <<>> /\ s[Len(s)] \in cs
    THEN rstrip(SubSeq(s, 1, Len(s) - 1), cs)
    ELSE s

\* str.strip(chars)
strip_chars(s, cs) == rstrip(lstrip(s, cs), cs)

\* str.strip()
strip(s) == strip_chars(s, Whitespace)

RECURSIVE str_nat(_)
str_nat(n) ==
    IF n < 10 THEN <<Digits[n + 1]>>
    ELSE Append(str_nat(n \div 10), Digits[(n % 10) + 1])

\* str(x) of an integer x: its decimal digits, "-" first when negative.
str(x) == IF x < 0 THEN <<"-">> \o str_nat(0 - x) ELSE str_nat(x)

\* str(v) of a csv cell: the cell itself, or "None" for a missing cell.
str_cell(v) == IF v = NULL THEN <<"N","o","n","e">> ELSE v

IsDigit(c) == \E i \in 1..Len(Digits) : Digits[i] = c

RECURSIVE digits_value(_)
digits_value(s) ==
    IF s = <<>> THEN 0
    ELSE 10 * digits_value(SubSeq(s, 1, Len(s) - 1))
         + ((CHOOSE i \in 1..Len(Digits) : Digits[i] = s[Len(s)]) - 1)

IsIntegerText(s) ==
    LET body == IF s # <<>> /\ Head(s) = "-" THEN Tail(s) ELSE s
    IN  body # <<>> /\ \A i \in 1..Len(body) : IsDigit(body[i])

\* to_num(x) = Decimal(str(x)), and Decimal(0) when the text is no number.
to_num(x) ==
    LET s == str(x)
    IN  IF ~IsIntegerText(s) THEN 0
        ELSE IF Head(s) = "-" THEN 0 - digits_value(Tail(s))
        ELSE digits_value(s)

\* Python's < on str: lexicographic by code point.
RECURSIVE str_less(_, _)
str_less(a, b) ==
    IF a = <<>> THEN b # <<>>
    ELSE IF b = <<>> THEN FALSE
    ELSE IF a[1] = b[1] THEN str_less(Tail(a), Tail(b))
    ELSE ord(a[1]) < ord(b[1])

\* `a or b`: a when it is truthy (neither None nor empty), else b.
py_or(a, b) == IF a = NULL \/ a = <<>> THEN b ELSE a

Min(a, b) == IF a < b THEN a ELSE b
Max(a, b) == IF a < b THEN b ELSE a

Range(s) == {s[i] : i \in 1..Len(s)}

\* list.index(name) and the test that it does not raise ValueError.
HasCol(cols, name) == \E i \in 1..Len(cols) : cols[i] = name
Index(cols, name) == CHOOSE i \in 1..Len(cols) :
                        cols[i] = name /\ \A j \in 1..(i - 1) : cols[j] # name

\* Slice with one element too many.
slice_one_more(lst, n) == SubSeq(lst, 1, Min(n + 1, Len(lst)))

\* lst[:n] for any integer n (a negative n drops the last -n elements).
Slice(lst, n) ==
    IF n >= 0 THEN SubSeq(lst, 1, Min(n, Len(lst)))
    ELSE SubSeq(lst, 1, Max(0, Len(lst) + n))

\* ------------------------------------------------------------- save_csv
NoFile == [written |-> FALSE, columns |-> <<>>, rows |-> <<>>]
save_csv(columns, rows) == [written |-> TRUE, columns |-> columns, rows |-> rows]

\* --------------------------------------------------- read_blacklist_ids
\* A blacklist artifact as csv.reader sees it: whether the path exists, and
\* its lines as lists of fields (a blank line is the empty list).  `read` is
\* set once read_blacklist_ids has been called on it.
NoBlacklist == [exists |-> FALSE, rows |-> <<>>, read |-> FALSE]
BlacklistFile(rows) == [exists |-> TRUE, rows |-> rows, read |-> FALSE]

UserIdAliases == { <<"u","s","e","r","i","d">>,
                   <<"u","s","e","r","_","i","d">>,
                   <<"u","s","e","r"," ","i","d">> }

\* fn and fn.strip('"').strip().lower() in ("userid", "user_id", "user id")
IsUserIdHeader(fn) ==
    fn # <<>> /\ lower(strip(strip_chars(fn, {"\""}))) \in UserIdAliases

\* The csv.reader loops of read_blacklist_ids: the stripped, non-empty first
\* field of every non-blank row.
first_field_ids(rows) ==
    { strip(str_cell(rows[i][1])) :
        i \in { j \in 1..Len(rows) :
                  rows[j] # <<>> /\ strip(str_cell(rows[j][1])) # <<>> } }

\* A csv.DictReader row's value for `key`: the cell under the key's last
\* header position, or None (restval) when the row is too short to reach it.
dict_row_get(fieldnames, row, key) ==
    LET at == { i \in 1..Len(fieldnames) : fieldnames[i] = key }
        last == CHOOSE i \in at : \A j \in at : j <= i
    IN  IF last <= Len(row) THEN row[last] ELSE NULL

\* The csv.DictReader loop of read_blacklist_ids: blank rows are skipped by
\* DictReader; the stripped, non-empty str() of the key's value is kept.
keyed_ids(fieldnames, rows, key) ==
    { strip(str_cell(dict_row_get(fieldnames, rows[i], key))) :
        i \in { j \in 1..Len(rows) :
                  rows[j] # <<>>
                  /\ strip(str_cell(dict_row_get(fieldnames, rows[j], key))) # <<>> } }

read_blacklist_ids(file) ==
    IF ~file.exists THEN {}
    ELSE
      LET rows == file.rows
          \* DictReader.fieldnames: the first row, None for an empty file
          fieldnames == IF rows = <<>> THEN <<>> ELSE rows[1]
          hits == { i \in 1..Len(fieldnames) : IsUserIdHeader(fieldnames[i]) }
      IN  IF fieldnames # <<>>
          THEN IF hits = {}
               THEN \* seek(0); next(reader, None): the first row is skipped
                    first_field_ids(Tail(rows))
               ELSE keyed_ids(fieldnames, Tail(rows),
                              fieldnames[CHOOSE i \in hits : \A j \in hits : i <= j])
          ELSE first_field_ids(rows)

\* ------------------------------------------------------ pipeline helpers
ResultCols == <<"username", "score", "purple", "legendaries", "userId">>

\* EmptyResult with nothing written.
empty_result_unwritten == NoFile

\* save_csv(["username", ...], [], RESULT_CSV) of the empty short-circuit
EmptyResult == save_csv(ResultCols, <<>>)

\* The sort key of main(): (-score, -purple, -legendaries, str(userId)).
sort_key(r, i_user, i_score, i_purple, i_leg) ==
    << to_num(r[i_score]) * (-1), to_num(r[i_purple]) * (-1),
       to_num(r[i_leg]) * (-1), str(r[i_user]) >>

\* key_less with the ids compared as numbers, not as text.
key_less_numeric_id(a, b) ==
    IF a[1] # b[1] THEN a[1] < b[1]
    ELSE IF a[2] # b[2] THEN a[2] < b[2]
    ELSE IF a[3] # b[3] THEN a[3] < b[3]
    ELSE digits_value(a[4]) < digits_value(b[4])

\* Python's < on two such key tuples.
key_less(a, b) ==
    IF a[1] # b[1] THEN a[1] < b[1]
    ELSE IF a[2] # b[2] THEN a[2] < b[2]
    ELSE IF a[3] # b[3] THEN a[3] < b[3]
    ELSE str_less(a[4], b[4])

\* list.sort(key=...) is a stable sort: an element goes after every element
\* that is not greater than it.  `keyed` holds <<key, row>> pairs.
RECURSIVE insert_by_key(_, _)
insert_by_key(sorted, x) ==
    IF sorted = <<>> THEN <<x>>
    ELSE IF key_less(x[1], Head(sorted)[1]) THEN <<x>> \o sorted
    ELSE <<Head(sorted)>> \o insert_by_key(Tail(sorted), x)

RECURSIVE sort_keyed(_)
sort_keyed(keyed) ==
    IF keyed = <<>> THEN <<>>
    ELSE insert_by_key(sort_keyed(SubSeq(keyed, 1, Len(keyed) - 1)),
                       keyed[Len(keyed)])

sort_rows(rows, i_user, i_score, i_purple, i_leg) ==
    LET keyed == [i \in 1..Len(rows) |->
                    <<sort_key(rows[i], i_user, i_score, i_purple, i_leg), rows[i]>>]
        done == sort_keyed(keyed)
    IN  [i \in 1..Len(done) |-> done[i][2]]

\* rows_acc.sort(key=lambda r: int(r[j_ord])), stable.
RECURSIVE insert_by_ord(_, _, _)
insert_by_ord(sorted, x, j_ord) ==
    IF sorted = <<>> THEN <<x>>
    ELSE IF x[j_ord] < Head(sorted)[j_ord] THEN <<x>> \o sorted
    ELSE <<Head(sorted)>> \o insert_by_ord(Tail(sorted), x, j_ord)

RECURSIVE sort_by_ord(_, _)
sort_by_ord(rows, j_ord) ==
    IF rows = <<>> THEN <<>>
    ELSE insert_by_ord(sort_by_ord(SubSeq(rows, 1, Len(rows) - 1), j_ord),
                       rows[Len(rows)], j_ord)

\* try: j_ord = cols_out.index("ord"); rows_acc.sort(...)  except: pass
restore_order(cols, rows) ==
    IF HasCol(cols, "ord") THEN sort_by_ord(rows, Index(cols, "ord")) ELSE rows

\* max_pairs_per_stmt counting pairs where parameters are meant.
max_pairs_no_halving(total_pairs) == Max(1, Min(total_pairs, MAX_PARAMS))

\* max(1, min(total_pairs, MAX_PARAMS // 2))
max_pairs_per_stmt(total_pairs) == Max(1, Min(total_pairs, MAX_PARAMS \div 2))

\* pairs = [(uid, idx + 1) for idx, uid in enumerate(user_ids)]
make_pairs(ids) == [i \in 1..Len(ids) |-> <<ids[i], i>>]

\* uname_entry without the `or` fallback.
uname_entry_no_fallback(r, j_user, j_uname) == r[j_uname]

\* uname_by_id = {str(r[j_user]): (r[j_uname] or str(r[j_user])) for r in rows2}
\* (a later row of the same id replaces an earlier one).
uname_entry(r, j_user, j_uname) == py_or(r[j_uname], r[j_user])

build_uname_by_id(rows, j_user, j_uname) ==
    [uid \in {rows[i][j_user] : i \in 1..Len(rows)} |->
        LET last == CHOOSE i \in 1..Len(rows) :
                       /\ rows[i][j_user] = uid
                       /\ \A j \in (i + 1)..Len(rows) : rows[j][j_user] # uid
        IN  uname_entry(rows[last], j_user, j_uname)]

\* keep without the blacklist test.
keep_ignoring_blacklist(uid, allowed_ids, blacklisted) == uid \in allowed_ids

\* The filter loop: a row is kept when its id is allowed and not blacklisted.
keep(uid, allowed_ids, blacklisted) ==
    uid \in allowed_ids /\ uid \notin blacklisted

filter_rows(rows, i_user, allowed_ids, blacklisted) ==
    LET Kept(r) == keep(str(r[i_user]), allowed_ids, blacklisted)
    IN  SelectSeq(rows, Kept)

\* uname_by_id.get(uid, uid)
dict_get(d, k, default) == IF k \in DOMAIN d THEN d[k] ELSE default

\* result_row with the score clamped at zero.
result_row_clamped(r, i_user, i_score, i_purple, i_leg, unames) ==
    << dict_get(unames, str(r[i_user]), str(r[i_user])),
       Max(0, r[i_score]), r[i_purple], r[i_leg], str(r[i_user]) >>

\* [uname, r[i_score], r[i_purple], r[i_leg], uid]
result_row(r, i_user, i_score, i_purple, i_leg, unames) ==
    << dict_get(unames, str(r[i_user]), str(r[i_user])),
       r[i_score], r[i_purple], r[i_leg], str(r[i_user]) >>

\* remove_key leaving the file in place.
remove_key_skipped(exists) == exists

\* tunnel.stop() and os.remove(key_path) of the finally blocks
stop_tunnel(active) == FALSE
remove_key(exists) == FALSE

\* on_connect_error retrying up to three attempts.
on_connect_error_retry(attempts_made) ==
    IF attempts_made < 3 THEN "retry" ELSE "propagate"

\* run_select_rows and fetch_usernames_with_values call psycopg2.connect once,
\* with no handler around it: a failure propagates.
on_connect_error(attempts_made) == "propagate"

\* ----------------------------------------------------------- environment
\* What the two databases, the file system and the process environment may
\* hold.  Ids are integers in the activity source (str() makes their text);
\* 10 and 2 order differently as numbers and as text.
RawIds == {1, 2, 3, 10}

\* (score, purple, legendaries) of an activity row
Metrics == { <<50, 0, 0>>, <<80, 0, 0>>, <<80, 1, 0>>, <<80, 0, 1>>, <<-5, 1, 1>> }

GoodCols1 == <<"userId", "score", "purple", "legendaries">>
BadCols1 == <<"userId", "score", "purple", "legs">>

ActivityRows == { <<id, m[1], m[2], m[3]>> : id \in RawIds, m \in Metrics }

RECURSIVE ascending(_)
ascending(ids) ==
    IF ids = {} THEN <<>>
    ELSE LET least == CHOOSE x \in ids : \A y \in ids : x <= y
         IN  <<least>> \o ascending(ids \ {least})

reversed_seq(q) == [i \in 1..Len(q) |-> q[Len(q) + 1 - i]]

\* Results of data.sql: up to MaxRows rows, one per userId, by rising or by
\* falling userId, each with any of the Metrics.
ActivityResults ==
    UNION { UNION { { [i \in 1..Len(order) |-> <<order[i], m[i][1], m[i][2], m[i][3]>>] :
                        m \in [1..Len(order) -> Metrics] } :
                    order \in {ascending(ids), reversed_seq(ascending(ids))} } :
            ids \in { x \in SUBSET RawIds : Cardinality(x) <= MaxRows } }

\* What the activity query returns: the expected columns with any result, or
\* a result whose columns lack "legendaries".
ActivityOutcomes ==
    { [columns |-> GoodCols1, rows |-> r] : r \in ActivityResults }
    \cup { [columns |-> BadCols1, rows |-> r] :
             r \in { x \in ActivityResults : Len(x) = 1 } }

TopNs == 1..MaxTopN

GoodCols2 == <<"userId", "username", "ord">>
Cols2Choices == { GoodCols2,
                  <<"userId", "name", "ord">>,
                  <<"userId", "username", "position">> }

\* The users of the identity source: the eligible ids with their username
\* (NULL, empty or a name); an id outside the domain is not eligible.
AllNamed ==
    ( str(1) :> <<"a","n","n">> ) @@ ( str(2) :> <<"b","o","b">> )
      @@ ( str(3) :> <<"c","y">> ) @@ ( str(10) :> <<"d","a","n">> )

IdentityTables ==
    { AllNamed,
      ( str(1) :> NULL ) @@ ( str(2) :> <<>> ) @@ ( str(10) :> <<"d","a","n">> ),
      ( str(3) :> <<" ">> ) @@ ( str(10) :> NULL ),
      [x \in {} |-> NULL] }

\* What the DB2 connection serves: users, and the columns user_data.sql
\* returns (the expected ones, or a result without "username" or "ord").
IdentitySources ==
    { [users |-> t, columns |-> GoodCols2] : t \in IdentityTables }
    \cup { [users |-> AllNamed, columns |-> c] : c \in Cols2Choices }

\* user_data.sql on one chunk of (id, ord) pairs: a row (userId, username,
\* ord) for every pair whose id is eligible, in the order of the pairs or, as
\* no order is promised, reversed.
identity_query(users, chunk, reversed) ==
    LET Eligible(p) == p[1] \in DOMAIN users
        sel == SelectSeq(chunk, Eligible)
        n == Len(sel)
    IN  [i \in 1..n |->
            LET p == IF reversed THEN sel[n + 1 - i] ELSE sel[i]
            IN  <<p[1], users[p[1]], p[2]>>]

\* The blacklist artifacts main() may find.
BlacklistFiles ==
    { NoBlacklist,
      BlacklistFile(<< <<<<"u","s","e","r","I","d">>>>, <<<<"2">>>> >>),
      BlacklistFile(<< << <<"n","a","m","e">>, <<"U","s","e","r"," ","I","D">> >>,
                       << <<"x">>, <<" ","1","0"," ">> >>,
                       << <<"y">> >> >>),
      BlacklistFile(<< <<<<"3">>>>, <<<<"1">>>> >>) }

\* ------------------------------------------------------------------ state
VARIABLES
    pc,             \* the position of main()
    exit_code,      \* the process exit status, -1 while running
    err,            \* the failure being raised, "none" when there is none
    src,            \* the database being fetched: 1 (activity) or 2 (identity)
    TOP_N,
    use_ssh,        \* ssh_tunnel_if_needed: SSH is on in the open context
    tunnel,         \* its local `tunnel`: "None" or "forwarder"
    tunnel_active,  \* a started SSH tunnel is up
    key_file,       \* the temporary private-key file exists
    attempts,       \* psycopg2.connect calls made, per database
    cols1, rows1, raw_csv,
    user_ids, pairs, start, rows_acc, cols_out,
    dispatched,     \* the chunks handed to execute_values, in order
    identity,       \* the identity source seen by the DB2 connection
    cols2, rows2, uname_by_id,
    blacklist_file, black_ids,
    result_csv

ctl == <<pc, exit_code, err>>
ssh == <<use_ssh, tunnel, tunnel_active, key_file>>
db1 == <<cols1, rows1, raw_csv>>
fetch == <<start, rows_acc, cols_out, dispatched, identity>>
db2 == <<user_ids, pairs, cols2, rows2>>
out == <<uname_by_id, blacklist_file, black_ids, result_csv>>
vars == <<ctl, src, TOP_N, ssh, attempts, db1, fetch, db2, out>>

NoIdentity == [users |-> [x \in {} |-> NULL], columns |-> <<>>]

Blank ==
    /\ exit_code = -1 /\ err = "none" /\ src = 1
    /\ use_ssh = FALSE /\ tunnel = "None" /\ tunnel_active = FALSE
    /\ key_file = FALSE
    /\ attempts = [s \in {1, 2} |-> 0]
    /\ cols1 = <<>> /\ rows1 = <<>> /\ raw_csv = NoFile
    /\ user_ids = <<>> /\ pairs = <<>> /\ start = 0 /\ rows_acc = <<>>
    /\ cols_out = <<>> /\ dispatched = <<>> /\ identity = NoIdentity
    /\ cols2 = <<>> /\ rows2 = <<>> /\ uname_by_id = [x \in {} |-> NULL]
    /\ blacklist_file = NoBlacklist /\ black_ids = {}
    /\ result_csv = NoFile

Init ==
    /\ pc = "start"
    /\ TOP_N \in TopNs
    /\ Blank

\* die(msg): the message is printed and the process exits with status 1.
die(class) ==
    /\ pc' = "exit"
    /\ exit_code' = 1
    /\ err' = class

\* ---------------------------------------------------------------- actions
\* main(), lines 155-184: the environment and data.sql are read.
ReadConfig1 ==
    /\ pc = "start"
    /\ \/ die("ConfigError")
       \/ /\ pc' = "ssh_enter"
          /\ UNCHANGED <<exit_code, err>>
    /\ UNCHANGED <<src, TOP_N, ssh, attempts, db1, fetch, db2, out>>

\* ssh_tunnel_if_needed up to the key file, lines 81-94.
TunnelEnter ==
    /\ pc = "ssh_enter"
    /\ \/ /\ pc' = "connect"
          /\ UNCHANGED <<exit_code, err, ssh>>
       \/ /\ die("ConfigError")
          /\ UNCHANGED ssh
       \/ /\ use_ssh' = TRUE
          /\ key_file' = TRUE
          /\ pc' = "ssh_start"
          /\ UNCHANGED <<exit_code, err, tunnel, tunnel_active>>
    /\ UNCHANGED <<src, TOP_N, attempts, db1, fetch, db2, out>>

\* The tunnel is built and started, lines 96-107.
TunnelStart ==
    /\ pc = "ssh_start"
    /\ \/ /\ err' = "TunnelError"
          /\ pc' = "ssh_finally"
          /\ UNCHANGED <<tunnel, tunnel_active>>
       \/ /\ tunnel' = "forwarder"
          /\ err' = "TunnelError"
          /\ pc' = "ssh_finally"
          /\ UNCHANGED tunnel_active
       \/ /\ tunnel' = "forwarder"
          /\ tunnel_active' = TRUE
          /\ pc' = "connect"
          /\ UNCHANGED err
    /\ UNCHANGED <<exit_code, src, TOP_N, use_ssh, key_file, attempts,
                   db1, fetch, db2, out>>

\* psycopg2.connect and the session set-up, lines 132-144 and 239-254.
Connect ==
    /\ pc = "connect"
    /\ attempts' = [attempts EXCEPT ![src] = @ + 1]
    /\ \/ /\ IF on_connect_error(attempts[src] + 1) = "retry"
             THEN UNCHANGED <<pc, err>>
             ELSE err' = "ConnectionError" /\ pc' = "ssh_finally"
          /\ UNCHANGED fetch
       \/ /\ src = 1
          /\ pc' = "query"
          /\ UNCHANGED <<err, fetch>>
       \/ /\ src = 2
          /\ identity' \in IdentitySources
          /\ start' = 0
          /\ rows_acc' = <<>>
          /\ cols_out' = <<>>
          /\ pc' = "chunk_loop"
          /\ UNCHANGED <<err, dispatched>>
    /\ UNCHANGED <<exit_code, src, TOP_N, ssh, db1, db2, out>>

\* cur.execute(sql) and fetchall of run_select_rows, lines 146-149.
Query1 ==
    /\ pc = "query"
    /\ \/ /\ err' = "QueryError"
          /\ UNCHANGED <<cols1, rows1>>
       \/ /\ \E got \in ActivityOutcomes :
                cols1' = got.columns /\ rows1' = got.rows
          /\ UNCHANGED err
    /\ pc' = "ssh_finally"
    /\ UNCHANGED <<exit_code, src, TOP_N, ssh, attempts, raw_csv, fetch, db2, out>>

\* One turn of the chunk loop, lines 255-264.
ChunkStep ==
    /\ pc = "chunk_loop"
    /\ start < Len(pairs)
    /\ LET total_pairs == Len(pairs)
           end == Min(total_pairs, start + max_pairs_per_stmt(total_pairs))
           chunk == SubSeq(pairs, start + 1, end)
       IN  /\ \E reversed \in BOOLEAN :
                rows_acc' = rows_acc \o identity_query(identity.users, chunk, reversed)
           /\ cols_out' = IF cols_out = <<>> THEN identity.columns ELSE cols_out
           /\ dispatched' = Append(dispatched, chunk)
           /\ start' = end
    /\ UNCHANGED <<ctl, src, TOP_N, ssh, attempts, db1, identity, db2, out>>

\* execute_values raises inside the loop.
ChunkFail ==
    /\ pc = "chunk_loop"
    /\ start < Len(pairs)
    /\ err' = "QueryError"
    /\ pc' = "ssh_finally"
    /\ UNCHANGED <<exit_code, src, TOP_N, ssh, attempts, db1, fetch, db2, out>>

\* The loop is left: the rows are put back in ord order and returned,
\* lines 266-273 and 277.
FinishFetch ==
    /\ pc = "chunk_loop"
    /\ start >= Len(pairs)
    /\ rows2' = restore_order(cols_out, rows_acc)
    /\ cols2' = cols_out
    /\ pc' = "ssh_finally"
    /\ UNCHANGED <<exit_code, err, src, TOP_N, ssh, attempts, db1, fetch,
                   user_ids, pairs, out>>

\* The context of ssh_tunnel_if_needed is left, by return or by exception:
\* the finally blocks of lines 108-117, then the exception, if any, reaches
\* the handler of lines 329-332.
TunnelExit ==
    /\ pc = "ssh_finally"
    /\ tunnel_active' = IF use_ssh /\ tunnel # "None" /\ tunnel_active
                        THEN stop_tunnel(tunnel_active)
                        ELSE tunnel_active
    /\ key_file' = IF use_ssh THEN remove_key(key_file) ELSE key_file
    /\ use_ssh' = FALSE
    /\ tunnel' = "None"
    /\ IF err # "none"
       THEN pc' = "exit" /\ exit_code' = 1
       ELSE /\ pc' = IF src = 1 THEN "save_raw" ELSE "map_users"
            /\ UNCHANGED exit_code
    /\ UNCHANGED <<err, src, TOP_N, attempts, db1, fetch, db2, out>>

\* The raw dump and the empty short-circuit, lines 190-196.
SaveRaw ==
    /\ pc = "save_raw"
    /\ raw_csv' = save_csv(cols1, rows1)
    /\ IF rows1 = <<>>
       THEN /\ result_csv' = EmptyResult
            /\ pc' = "exit"
            /\ exit_code' = 0
       ELSE /\ pc' = "index_cols"
            /\ UNCHANGED <<exit_code, result_csv>>
    /\ UNCHANGED <<err, src, TOP_N, ssh, attempts, cols1, rows1, fetch, db2,
                   uname_by_id, blacklist_file, black_ids>>

\* The column indexes and user_ids, lines 199-210.
IndexCols ==
    /\ pc = "index_cols"
    /\ IF \E c \in Range(GoodCols1) : ~HasCol(cols1, c)
       THEN /\ die("SchemaError")
            /\ UNCHANGED <<user_ids, result_csv>>
       ELSE LET ids == [i \in 1..Len(rows1) |-> str(rows1[i][Index(cols1, "userId")])]
            IN  /\ user_ids' = ids
                /\ IF ids = <<>>
                   THEN /\ result_csv' = EmptyResult
                        /\ pc' = "exit"
                        /\ exit_code' = 0
                   ELSE /\ pc' = "config2"
                        /\ UNCHANGED <<exit_code, result_csv>>
                /\ UNCHANGED err
    /\ UNCHANGED <<src, TOP_N, ssh, attempts, db1, fetch, pairs, cols2, rows2,
                   uname_by_id, blacklist_file, black_ids>>

\* The DB2 environment, user_data.sql and the (id, ord) pairs,
\* lines 213-234 and 276.
ReadConfig2 ==
    /\ pc = "config2"
    /\ \/ /\ die("ConfigError")
          /\ UNCHANGED <<src, pairs>>
       \/ /\ src' = 2
          /\ pairs' = make_pairs(user_ids)
          /\ pc' = "ssh_enter"
          /\ UNCHANGED <<exit_code, err>>
    /\ UNCHANGED <<TOP_N, ssh, attempts, db1, fetch, user_ids, cols2, rows2, out>>

\* The map userId -> username, lines 280-288.
MapUsers ==
    /\ pc = "map_users"
    /\ IF ~HasCol(cols2, "userId") \/ ~HasCol(cols2, "username")
       THEN /\ die("SchemaError")
            /\ UNCHANGED uname_by_id
       ELSE /\ uname_by_id' = build_uname_by_id(rows2, Index(cols2, "userId"),
                                                Index(cols2, "username"))
            /\ pc' = "blacklist"
            /\ UNCHANGED <<exit_code, err>>
    /\ UNCHANGED <<src, TOP_N, ssh, attempts, db1, fetch, db2,
                   blacklist_file, black_ids, result_csv>>

\* black_ids = read_blacklist_ids(BLACKLIST_FILE), line 291.
ReadBlacklistFrom(files) ==
    /\ pc = "blacklist"
    /\ \E f \in files :
          /\ blacklist_file' = [f EXCEPT !.read = TRUE]
          /\ black_ids' = read_blacklist_ids(f)
    /\ pc' = "build"
    /\ UNCHANGED <<exit_code, err, src, TOP_N, ssh, attempts, db1, fetch, db2,
                   uname_by_id, result_csv>>

ReadBlacklist == ReadBlacklistFrom(BlacklistFiles)

\* The rows main() keeps, sorts and cuts to TOP_N, lines 296-316.
filtered ==
    filter_rows(rows1, Index(cols1, "userId"), DOMAIN uname_by_id, black_ids)

top_rows ==
    Slice(sort_rows(filtered, Index(cols1, "userId"), Index(cols1, "score"),
                    Index(cols1, "purple"), Index(cols1, "legendaries")),
          TOP_N)

\* result_data.csv is built and saved, lines 296-326.
BuildResult ==
    /\ pc = "build"
    /\ result_csv' =
          save_csv(ResultCols,
                   [i \in 1..Len(top_rows) |->
                      result_row(top_rows[i], Index(cols1, "userId"),
                                 Index(cols1, "score"), Index(cols1, "purple"),
                                 Index(cols1, "legendaries"), uname_by_id)])
    /\ pc' = "exit"
    /\ exit_code' = 0
    /\ UNCHANGED <<err, src, TOP_N, ssh, attempts, db1, fetch, db2,
                   uname_by_id, blacklist_file, black_ids>>

Next ==
    \/ ReadConfig1 \/ TunnelEnter \/ TunnelStart \/ Connect \/ Query1
    \/ TunnelExit \/ SaveRaw \/ IndexCols \/ ReadConfig2
    \/ ChunkStep \/ ChunkFail \/ FinishFetch
    \/ MapUsers \/ ReadBlacklist \/ BuildResult

Spec == Init /\ [][Next]_vars

\* ------------------------------------------- read_blacklist_ids on its own
\* The lines a blacklist artifact is made of: a blank line, headers that
\* match an alias (plain, quoted, padded, in the second column), a header
\* that matches none, and id lines (plain, padded, with a second field,
\* with an empty first field).
BlacklistLines ==
    { <<>>,
      << <<"u","s","e","r","I","d">> >>,
      << <<"\"","U","S","E","R","_","I","D","\""," ">> >>,
      << <<"n","a","m","e">>, <<"u","s","e","r"," ","i","d">> >>,
      << <<"n","a","m","e">> >>,
      << <<"7">> >>,
      << <<" ","8"," ">> >>,
      << <<"7">>, <<"x">> >>,
      << <<>>, <<"9">> >> }

AllBlacklistFiles ==
    { NoBlacklist }
    \cup UNION { { BlacklistFile(f) : f \in [1..n -> BlacklistLines] } :
                 n \in 0..MaxBlLines }

InitBlacklist ==
    /\ pc = "blacklist"
    /\ TOP_N = MaxTopN
    /\ exit_code = -1 /\ err = "none" /\ src = 2
    /\ use_ssh = FALSE /\ tunnel = "None" /\ tunnel_active = FALSE
    /\ key_file = FALSE
    /\ attempts = [s \in {1, 2} |-> 1]
    /\ cols1 = GoodCols1 /\ rows1 = <<>> /\ raw_csv = save_csv(GoodCols1, <<>>)
    /\ user_ids = <<>> /\ pairs = <<>> /\ start = 0 /\ rows_acc = <<>>
    /\ cols_out = <<>> /\ dispatched = <<>> /\ identity = NoIdentity
    /\ cols2 = <<>> /\ rows2 = <<>> /\ uname_by_id = [x \in {} |-> NULL]
    /\ blacklist_file \in AllBlacklistFiles /\ black_ids = {}
    /\ result_csv = NoFile

\* read_blacklist_ids applied to the artifact of the initial state.
ReadGivenBlacklist == ReadBlacklistFrom({blacklist_file})

NextBlacklist == ReadGivenBlacklist

SpecBlacklist == InitBlacklist /\ [][NextBlacklist]_vars

\* ------------------------------------------------- the chunk loop at scale
\* Numbers of (id, ord) pairs: the small ones, and those around one and two
\* full statements of MAX_PARAMS // 2 pairs.
PairCounts ==
    (1..SmallPairs)
    \cup { MAX_PARAMS \div 2, (MAX_PARAMS \div 2) + 1, MAX_PARAMS + 1 }

\* fetch_usernames_with_values(pairs) as it enters its loop, for the pairs of
\* n user ids 1..n.  Only what the function reads is set: its argument, its
\* locals and the identity source of its connection.
InitChunk ==
    /\ pc = "chunk_loop"
    /\ TOP_N = MaxTopN
    /\ exit_code = -1 /\ err = "none" /\ src = 2
    /\ use_ssh = FALSE /\ tunnel = "None" /\ tunnel_active = FALSE
    /\ key_file = FALSE
    /\ attempts = [s \in {1, 2} |-> 1]
    /\ cols1 = GoodCols1 /\ rows1 = <<>> /\ raw_csv = NoFile
    /\ user_ids = <<>>
    /\ \E n \in PairCounts : pairs = make_pairs([i \in 1..n |-> str(i)])
    /\ start = 0 /\ rows_acc = <<>> /\ cols_out = <<>> /\ dispatched = <<>>
    /\ identity = [users |-> AllNamed, columns |-> GoodCols2]
    /\ cols2 = <<>> /\ rows2 = <<>> /\ uname_by_id = [x \in {} |-> NULL]
    /\ blacklist_file = NoBlacklist /\ black_ids = {}
    /\ result_csv = NoFile

NextChunk == ChunkStep

\* main() is one sequential thread: a loop turn that can run does run.
SpecChunk == InitChunk /\ [][NextChunk]_vars /\ WF_vars(ChunkStep)

\* ----------------------------------------------------------------- claims
\* main() ran to its end and saved the result built from the filtered rows.
Built == pc = "exit" /\ blacklist_file.read /\ result_csv.written

OutRows == result_csv.rows
OutCol(i, name) == OutRows[i][Index(result_csv.columns, name)]

\* The ids the identity query returned, and the activity rows whose id is
\* among them and not in the set read_blacklist_ids returned.
ReturnedIds == { rows2[j][Index(cols2, "userId")] : j \in 1..Len(rows2) }
Survivors ==
    { i \in 1..Len(rows1) :
        /\ str(rows1[i][1]) \in ReturnedIds
        /\ str(rows1[i][1]) \notin black_ids }

\* C1: every row of the result artifact has a userId that the identity query
\* returned (a key of uname_by_id) and that read_blacklist_ids did not return.
C1_OnlyEligibleUnlisted ==
    result_csv.written =>
        \A i \in 1..Len(OutRows) :
            /\ OutCol(i, "userId") \in ReturnedIds
            /\ OutCol(i, "userId") \in DOMAIN uname_by_id
            /\ OutCol(i, "userId") \notin black_ids

\* A run that wrote rows while it dropped a blacklisted id and a non-eligible id.
C1_Witness ==
    /\ Built
    /\ OutRows # <<>>
    /\ \E i \in 1..Len(rows1) :
          str(rows1[i][1]) \in ReturnedIds /\ str(rows1[i][1]) \in black_ids
    /\ \E i \in 1..Len(rows1) : str(rows1[i][1]) \notin ReturnedIds

ScenarioRun ==
    /\ Built
    /\ Range(rows1) = { <<1, 50, 0, 0>>, <<2, 80, 0, 0>>, <<3, 80, 0, 0>> }
    /\ {str(1), str(2), str(3)} \subseteq ReturnedIds
    /\ black_ids = {}
    /\ TOP_N = 3

\* C2: adjacent rows of the result artifact fall in score, then in purple,
\* then in legendaries, and on a full tie rise in userId compared as text; the
\* scenario id1=50, id2=80, id3=80 with topN=3 comes out as id2, id3, id1.
C2_SortedOutput ==
    result_csv.written =>
        /\ \A i \in 1..(Len(OutRows) - 1) :
              /\ OutCol(i, "score") >= OutCol(i + 1, "score")
              /\ OutCol(i, "score") = OutCol(i + 1, "score")
                    => OutCol(i, "purple") >= OutCol(i + 1, "purple")
              /\ ( OutCol(i, "score") = OutCol(i + 1, "score")
                   /\ OutCol(i, "purple") = OutCol(i + 1, "purple") )
                    => OutCol(i, "legendaries") >= OutCol(i + 1, "legendaries")
              /\ ( OutCol(i, "score") = OutCol(i + 1, "score")
                   /\ OutCol(i, "purple") = OutCol(i + 1, "purple")
                   /\ OutCol(i, "legendaries") = OutCol(i + 1, "legendaries") )
                    => ~str_less(OutCol(i + 1, "userId"), OutCol(i, "userId"))
        /\ ScenarioRun =>
              [i \in 1..Len(OutRows) |-> OutCol(i, "userId")] = <<str(2), str(3), str(1)>>

\* The scenario run, ended with its three rows.
C2_Witness == ScenarioRun /\ Len(OutRows) = 3

ZeroRecords == cols1 # <<>> /\ rows1 = <<>>

Headerless(file) ==
    /\ file.exists
    /\ file.rows # <<>>
    /\ file.rows[1] # <<>>
    /\ strip(file.rows[1][1]) # <<>>
    /\ \A k \in 1..Len(file.rows[1]) : ~IsUserIdHeader(file.rows[1][k])

\* C5: read_blacklist_ids on a headerless artifact returns the stripped,
\* non-empty first field of every line, the first line included.
C5_HeaderlessKeepsAll ==
    (blacklist_file.read /\ Headerless(blacklist_file)) =>
        black_ids = { strip(blacklist_file.rows[i][1]) :
                        i \in { j \in 1..Len(blacklist_file.rows) :
                                  /\ blacklist_file.rows[j] # <<>>
                                  /\ strip(blacklist_file.rows[j][1]) # <<>> } }

RECURSIVE concat(_)
concat(chunks) ==
    IF chunks = <<>> THEN <<>> ELSE Head(chunks) \o concat(Tail(chunks))

\* The chunks sent so far are non-empty and within MAX_PARAMS parameters,
\* and together they are the first `start` pairs.
ChunksSoFar ==
    /\ start <= Len(pairs)
    /\ \A k \in 1..Len(dispatched) :
          /\ Len(dispatched[k]) >= 1
          /\ Len(dispatched[k]) <= MAX_PARAMS \div 2
          /\ 2 * Len(dispatched[k]) <= MAX_PARAMS
    /\ concat(dispatched) = SubSeq(pairs, 1, start)

LoopLeft == start >= Len(pairs)

\* C6: for a non-empty list of pairs the chunk loop ends, and the statements
\* it issued carry non-empty consecutive slices of at most MAX_PARAMS // 2
\* pairs whose concatenation is the list.
C6_ChunkingCovers ==
    /\ [](pairs # <<>> => ChunksSoFar)
    /\ [](LoopLeft => concat(dispatched) = pairs)
    /\ <>LoopLeft

\* A loop that ended after more than one statement.
C6_Witness == LoopLeft /\ Len(dispatched) >= 2 /\ concat(dispatched) = pairs

InContext == pc \in {"ssh_start", "connect", "query", "chunk_loop", "ssh_finally"}

Snapshots == { [x \in {} |-> 0], ( str(2) :> 30 ), ( str(1) :> 60 ) @@ ( str(10) :> 5 ) }
Deduction(snapshot, uid) == IF uid \in DOMAIN snapshot THEN snapshot[uid] ELSE 0

\* The base value G of the activity row of an output row.
BaseScore(uid) ==
    LET i == CHOOSE j \in 1..Len(rows1) : str(rows1[j][1]) = uid
    IN  rows1[i][2]

====
